---- MODULE Spec2Model ----
(***************************************************************************)
(* bzr-difftools: the controller that resolves "compare these paths" into  *)
(* two snapshots, stages them and runs an external diff tool               *)
(* (controller.py), the self-cleaning temporary directory (tempdir.py)     *)
(* and the tool objects (externtool.py, difftool.py).                      *)
(*                                                                         *)
(* Strings that the code inspects (directory names, option strings, tree   *)
(* paths) are sequences of one-character strings; names that are only      *)
(* compared for equality (tool names, branch names) are TLA+ strings.      *)
(***************************************************************************)
EXTENDS Integers, Sequences, FiniteSets, TLC

None == "None"

(***************************************************************************)
(* Bounds of the model.                                                    *)
(***************************************************************************)
\* longest file_list handed to Controller.run
MaxFiles == 2
\* longest --revision list handed to Controller.run
MaxRevs == 3
\* longest directory name tried as the path of a NamedTemporaryDir
MaxPathLen == 4
\* most cleanup() calls made on one NamedTemporaryDir
MaxCleanupCalls == 3
\* longest list of paths handed to get_tree_files on its own
MaxInput == 3

(***************************************************************************)
(* Strings.                                                                *)
(***************************************************************************)
EndsWith(s, suffix) ==
  /\ Len(s) >= Len(suffix)
  /\ SubSeq(s, Len(s) - Len(suffix) + 1, Len(s)) = suffix

StartsWithAt(s, i, sub) ==
  /\ i + Len(sub) - 1 <= Len(s)
  /\ SubSeq(s, i, i + Len(sub) - 1) = sub

\* index of the first occurrence of sub in s, 0 when there is none
Find(s, sub) ==
  IF \E i \in 1..(Len(s) + 1) : StartsWithAt(s, i, sub)
  THEN CHOOSE i \in 1..(Len(s) + 1) :
         /\ StartsWithAt(s, i, sub)
         /\ \A j \in 1..(i - 1) : ~StartsWithAt(s, j, sub)
  ELSE 0

\* str.replace(old, new, 1)
ReplaceFirst(s, old, new) ==
  LET i == Find(s, old)
  IN IF i = 0 THEN s
     ELSE SubSeq(s, 1, i - 1) \o new \o SubSeq(s, i + Len(old), Len(s))

\* index of the last "/" of s, 0 when there is none
LastSlash(s) ==
  IF \E i \in 1..Len(s) : s[i] = "/"
  THEN CHOOSE i \in 1..Len(s) : s[i] = "/" /\ \A j \in (i + 1)..Len(s) : s[j] # "/"
  ELSE 0

\* osutils.basename
basename(s) == SubSeq(s, LastSlash(s) + 1, Len(s))

\* osutils.pathjoin, os.path.join: posixpath.join of two parts
pathjoin(a, b) ==
  IF b # <<>> /\ Head(b) = "/" THEN b
  ELSE IF a = <<>> \/ a[Len(a)] = "/" THEN a \o b
  ELSE a \o <<"/">> \o b

\* the answer taken as it was typed
Lower_asis(s) == s

\* str.lower, for the letters the answers are made of
Lower(s) ==
  [i \in DOMAIN s |-> CASE s[i] = "N" -> "n" [] s[i] = "O" -> "o" [] s[i] = "Y" -> "y"
                         [] OTHER -> s[i]]

\* "%s" % n for a one-digit n
Digit(n) == <<(<<"0", "1", "2", "3", "4", "5", "6", "7", "8", "9">>)[n + 1]>>

\* a dict with d[k] = v
DictSet(d, k, v) == [x \in (DOMAIN d) \cup {k} |-> IF x = k THEN v ELSE d[x]]

EmptyDict == [x \in {} |-> TRUE]

(***************************************************************************)
(* externtool.py, difftool.py: tool objects.  A tool is a record; its      *)
(* capabilities dict is held by reference (copy.copy is shallow), so the   *)
(* record carries the key of the dict in the variable dicts.               *)
(***************************************************************************)
\* ExternalTool.__init__ followed by the subclass constructors: the
\* capabilities dict a new tool of class cls gets from its keyword arguments
NewCapabilities(cls, kwargs) ==
  LET c0 == DictSet(kwargs, "diff", TRUE)
      c1 == IF "interactive" \in DOMAIN c0 THEN c0 ELSE DictSet(c0, "interactive", TRUE)
      c2 == IF "cleanup" \in DOMAIN c1 THEN c1 ELSE DictSet(c1, "cleanup", TRUE)
  IN CASE cls = "TreeDiffTool" -> DictSet(c2, "recursive", TRUE)
       [] cls = "ListDiffTool" -> DictSet(c2, "recursive", FALSE)
       [] OTHER -> c2

\* DiffTool.__init__: the tool object itself
NewTool(cls, name, diff_options) ==
  [class |-> cls, command |-> name, options |-> diff_options, capabilities |-> name]

\* the register_diff_tool calls made when controller.py is imported
Registrations ==
  << [class |-> "TreeDiffTool", name |-> "fldiff", diff_options |-> <<>>, kwargs |-> EmptyDict],
     [class |-> "ListDiffTool", name |-> "gvim",
      diff_options |-> <<"-", "f", " ", "-", "d">>, kwargs |-> EmptyDict],
     [class |-> "ListDiffTool", name |-> "gvimdiff",
      diff_options |-> <<"-", "f">>, kwargs |-> EmptyDict],
     [class |-> "TreeDiffTool", name |-> "kdiff3", diff_options |-> <<>>, kwargs |-> EmptyDict],
     [class |-> "TreeDiffTool", name |-> "kompare", diff_options |-> <<>>, kwargs |-> EmptyDict],
     [class |-> "TreeDiffTool", name |-> "meld", diff_options |-> <<>>, kwargs |-> EmptyDict],
     [class |-> "ListDiffTool", name |-> "mgdiff", diff_options |-> <<>>, kwargs |-> EmptyDict],
     [class |-> "TreeDiffTool", name |-> "opendiff", diff_options |-> <<>>,
      kwargs |-> DictSet(EmptyDict, "cleanup", FALSE)],
     [class |-> "ListDiffTool", name |-> "tkdiff", diff_options |-> <<>>, kwargs |-> EmptyDict],
     [class |-> "ListDiffTool", name |-> "vim",
      diff_options |-> <<"-", "d">>, kwargs |-> EmptyDict],
     [class |-> "ListDiffTool", name |-> "vimdiff", diff_options |-> <<>>, kwargs |-> EmptyDict],
     [class |-> "TreeDiffTool", name |-> "xxdiff",
      diff_options |-> <<"-", "-", "e", "x", "c", "l", "u", "d", "e", "=", ".", "b", "z", "r", "*">>,
      kwargs |-> EmptyDict] >>

RegisteredNames == {Registrations[i].name : i \in DOMAIN Registrations}

\* the last registration of a name (the last one wins)
LastRegistration(name) ==
  Registrations[CHOOSE i \in DOMAIN Registrations :
                  /\ Registrations[i].name = name
                  /\ \A j \in DOMAIN Registrations :
                       Registrations[j].name = name => j <= i]

\* ExternalTool.known_tools after the registrations
InitialKnownTools ==
  [kind \in {"diff"} |->
     [name \in RegisteredNames |->
        LET r == LastRegistration(name)
        IN NewTool(r.class, r.name, r.diff_options)]]

\* the capabilities dicts of the registered exemplars
InitialDicts ==
  [name \in RegisteredNames |->
     LET r == LastRegistration(name) IN NewCapabilities(r.class, r.kwargs)]

\* what register was given for each name: the options of the exemplar and the
\* contents of its capabilities dict at that moment
InitialRegistered ==
  [name \in RegisteredNames |->
     [options |-> InitialKnownTools["diff"][name].options,
      capabilities |-> InitialDicts[name]]]

\* ExternalTool.supports(key): the value recorded in dict d; None, which is
\* false in every test the code makes of it, when the key is absent
supports(d, key) == IF key \in DOMAIN d THEN d[key] ELSE FALSE

\* ExternalTool.add_options
add_options(tool, options) ==
  IF options # <<>>
  THEN [tool EXCEPT !.options = tool.options \o <<" ">> \o options]
  ELSE tool

(***************************************************************************)
(* The repository engine (bzrlib), as far as the controller consults it.   *)
(* Four branches: two with a working tree, one local without, one remote.  *)
(***************************************************************************)
Branches == {"W1", "W2", "B", "R"}

\* which except clause of get_tree_files a location of the branch ends in
LocationKind(b) ==
  CASE b \in {"W1", "W2"} -> "WorkingTree"
    [] b = "B" -> "NoWorkingTree"
    [] OTHER -> "NotLocalUrl"

\* branch.base
Base(b) ==
  CASE b = "W1" -> <<"/", "w">>
    [] b = "W2" -> <<"/", "v">>
    [] b = "B" -> <<"/", "b">>
    [] OTHER -> <<"r", ":">>

\* branch.nick
Nick(b) ==
  CASE b = "W1" -> <<"w">>
    [] b = "W2" -> <<"v">>
    [] b = "B" -> <<"b">>
    [] OTHER -> <<"r">>

\* the number of revisions in the branch's history
RevNo(b) == IF b = "B" THEN 1 ELSE 2

\* trees: the working tree of a branch, or the tree of one of its revisions
WorkingTreeOf(b) == [type |-> "WorkingTree", branch |-> b, revno |-> -1]

RevisionTreeOf(b, n) == [type |-> "RevisionTree", branch |-> b, revno |-> n]

\* branch.basis_tree()
basis_tree(b) == RevisionTreeOf(b, RevNo(b))

\* isinstance(tree, workingtree.WorkingTree)
IsWorkingTree(tree) == tree.type = "WorkingTree"

NoTree == [type |-> "None", branch |-> None, revno |-> -1]

\* tree paths
DirD == <<"d">>
FileF == <<"d", "/", "f">>
FileG == <<"d", "/", "g">>
Untracked == <<"u">>

\* the inventory of a tree: file id -> [path, kind].  In the branches with
\* two revisions the file d/f was added in revision 2; the null revision has
\* no files.
Inventory(tree) ==
  LET all == [id \in {"root-id", "d-id", "f-id", "g-id"} |->
                CASE id = "root-id" -> [path |-> <<>>, kind |-> "directory"]
                  [] id = "d-id" -> [path |-> DirD, kind |-> "directory"]
                  [] id = "f-id" -> [path |-> FileF, kind |-> "file"]
                  [] OTHER -> [path |-> FileG, kind |-> "file"]]
  IN CASE tree.type = "RevisionTree" /\ tree.revno = 0 -> [id \in {} |-> all["root-id"]]
       [] tree.type = "RevisionTree" /\ tree.revno = 1 /\ RevNo(tree.branch) > 1 ->
            [id \in {"root-id", "d-id", "g-id"} |-> all[id]]
       [] OTHER -> all

has_id(tree, file_id) == file_id \in DOMAIN Inventory(tree)

id2path(tree, file_id) == Inventory(tree)[file_id].path

get_file_kind(tree, file_id) == Inventory(tree)[file_id].kind

path2id(tree, path) ==
  IF \E id \in DOMAIN Inventory(tree) : Inventory(tree)[id].path = path
  THEN CHOOSE id \in DOMAIN Inventory(tree) : Inventory(tree)[id].path = path
  ELSE None

\* the path arguments: a location in a branch, relative path rel
Rels == {DirD, FileF, Untracked}

Paths == [loc : Branches, rel : Rels]

\* the string of a path argument
PathString(p) == pathjoin(Base(p.loc), p.rel)

\* work_tree.abspath(rel) and work_tree.id2abspath(file_id)
abspath(tree, rel) == pathjoin(Base(tree.branch), rel)

id2abspath(tree, file_id) == abspath(tree, id2path(tree, file_id))

\* isinstance(transport.get_transport(file_name), LocalTransport)
IsLocal(p) == LocationKind(p.loc) # "NotLocalUrl"

\* osutils.getcwd()
Cwd == [loc |-> "W1", rel |-> DirD]

\* revision specifiers: spec 0 is a RevisionSpec whose spec is None
NoRev == [given |-> FALSE, spec |-> 0]

RevisionSpec(n) == [given |-> TRUE, spec |-> n]

RevSpecs == {RevisionSpec(n) : n \in 0..2}

\* rev.in_history(b): raises when the branch has no such revision
InHistoryRaises(rev, b) == rev.spec > RevNo(b)

\* rev.in_history(b).revno; the unset spec yields (0, None), the null revision
InHistoryRevno(rev, b) == rev.spec

(***************************************************************************)
(* controller.py: get_tree_files.                                          *)
(***************************************************************************)
\* lines 228-239: the branch, tree and base path of the first path
OpenContaining(p) ==
  [branch1 |-> p.loc,
   tree |-> IF LocationKind(p.loc) = "WorkingTree"
            THEN WorkingTreeOf(p.loc) ELSE basis_tree(p.loc),
   has_base_path |-> LocationKind(p.loc) # "NotLocalUrl",
   rel_path |-> p.rel]

\* the loop that passes over a path of another branch and goes on
RECURSIVE ResolveLoop_skip(_, _, _, _)
ResolveLoop_skip(open, list, i, ids) ==
  IF i >= Len(list) THEN [ids |-> ids, i |-> i, exc |-> None]
  ELSE LET file_name == list[i + 1]
           not_child == i > 0 /\ file_name.loc # open.branch1
           file_id == path2id(open.tree, file_name.rel)
       IN IF not_child THEN ResolveLoop_skip(open, list, i + 1, ids)
          ELSE IF file_id # None
          THEN ResolveLoop_skip(open, list, i + 1, Append(ids, file_id))
          ELSE IF ~IsLocal(file_name)
          THEN [ids |-> ids, i |-> i, exc |-> None]
          ELSE [ids |-> ids, i |-> i, exc |-> "NotVersionedError"]

\* lines 244-267: the loop over file_list, from index i (0-based) on
RECURSIVE ResolveLoop(_, _, _, _)
ResolveLoop(open, list, i, ids) ==
  IF i >= Len(list) THEN [ids |-> ids, i |-> i, exc |-> None]
  ELSE LET file_name == list[i + 1]
           \* osutils.relpath, or the comparison of the branch bases, raises
           not_child == i > 0 /\ file_name.loc # open.branch1
           file_id == path2id(open.tree, file_name.rel)
       IN IF not_child THEN [ids |-> ids, i |-> i, exc |-> None]
          ELSE IF file_id # None
          THEN ResolveLoop(open, list, i + 1, Append(ids, file_id))
          ELSE IF ~IsLocal(file_name)
          THEN [ids |-> ids, i |-> i, exc |-> None]
          ELSE [ids |-> ids, i |-> i, exc |-> "NotVersionedError"]

\* get_tree_files leaving out of the rest the path its loop stopped at
get_tree_files_consumed(list) ==
  LET open == OpenContaining(list[1])
      r == ResolveLoop(open, list, 0, <<>>)
  IN [branch |-> open.branch1, tree |-> open.tree, file_ids |-> r.ids,
      remainder |-> SubSeq(list, r.i + 2, Len(list)), exc |-> r.exc]

\* get_tree_files without its locking: (branch1, tree, file_id_list, rest)
get_tree_files(list) ==
  LET open == OpenContaining(list[1])
      r == ResolveLoop(open, list, 0, <<>>)
  IN [branch |-> open.branch1, tree |-> open.tree, file_ids |-> r.ids,
      remainder |-> SubSeq(list, r.i + 1, Len(list)), exc |-> r.exc]

(***************************************************************************)
(* controller.py: get_diffs_or_stop.  Tree.changes_from is the repository  *)
(* engine's; the model lets it answer with any delta that lies within the  *)
(* restriction, and with the empty delta for a tree compared with itself.  *)
(***************************************************************************)
EmptyDelta == [removed |-> <<>>, added |-> <<>>, renamed |-> <<>>, modified |-> <<>>]

Modified(path, id) ==
  [path |-> path, file_id |-> id, kind |-> "file", text_mods |-> TRUE, meta_mods |-> FALSE]

\* an entry of delta.modified whose text is unchanged
MetaOnly(path, id) ==
  [path |-> path, file_id |-> id, kind |-> "file", text_mods |-> FALSE, meta_mods |-> TRUE]

\* a delta with entries of every kind: d/r removed, d/a added, d/o renamed
\* to d/n with its text changed, d/f changed in text and d/g in metadata only
MixedDelta ==
  [removed |-> <<[path |-> <<"d", "/", "r">>, file_id |-> "r-id", kind |-> "file"]>>,
   added |-> <<[path |-> <<"d", "/", "a">>, file_id |-> "a-id", kind |-> "file"]>>,
   renamed |-> <<[path |-> <<"d", "/", "o">>, new_path |-> <<"d", "/", "n">>,
                  file_id |-> "o-id", kind |-> "file",
                  text_mods |-> TRUE, meta_mods |-> FALSE]>>,
   modified |-> <<MetaOnly(FileG, "g-id"), Modified(FileF, "f-id")>>]

Deltas ==
  { EmptyDelta,
    [EmptyDelta EXCEPT !.added = <<[path |-> FileF, file_id |-> "f-id", kind |-> "file"]>>],
    [EmptyDelta EXCEPT !.modified = <<Modified(FileF, "f-id")>>],
    [EmptyDelta EXCEPT !.modified = <<Modified(FileF, "f-id"), Modified(FileG, "g-id")>>],
    MixedDelta }

\* path lies at or below one of the specific files; an empty list restricts
\* nothing
Covered(path, specific_files) ==
  \/ specific_files = <<>>
  \/ \E i \in DOMAIN specific_files :
       \/ specific_files[i] = path
       \/ specific_files[i] = <<>>
       \/ StartsWithAt(path, 1, specific_files[i] \o <<"/">>)

DeltaPaths(d) ==
  {d.removed[i].path : i \in DOMAIN d.removed} \cup {d.added[i].path : i \in DOMAIN d.added}
    \cup {d.renamed[i].path : i \in DOMAIN d.renamed}
    \cup {d.modified[i].path : i \in DOMAIN d.modified}

\* new_tree.changes_from(old_tree, specific_files): the deltas it may return
changes_from(new, old, specific_files) ==
  IF new = old THEN {EmptyDelta}
  ELSE {d \in Deltas : \A q \in DeltaPaths(d) : Covered(q, specific_files)}

\* lines 283-285: the paths, in the new tree, of the ids the new tree has
RECURSIVE DiffPathList(_, _)
DiffPathList(new, ids) ==
  IF ids = <<>> THEN <<>>
  ELSE (IF has_id(new, Head(ids)) THEN <<id2path(new, Head(ids))>> ELSE <<>>)
         \o DiffPathList(new, Tail(ids))

\* the test with the comparison turned around
NoDifferences_lt(d) ==
  Len(d.removed) + Len(d.added) + Len(d.renamed) + Len(d.modified) < 0

\* lines 288-290: the test that raises NoDifferencesFound
NoDifferences(d) ==
  Len(d.removed) + Len(d.added) + Len(d.renamed) + Len(d.modified) = 0

(***************************************************************************)
(* tempdir.py: NamedTemporaryDir.  The file system is a dict from the      *)
(* path of each existing temporary directory to the files in it.           *)
(***************************************************************************)
Marker == <<"_", "t", "m", "p">>

tmp_prefix == <<"b", "z", "r", "_", "d", "i", "f", "f", "-">>

\* osutils.mkdtemp: a fresh name, made unique by the digit n
mkdtemp(prefix, suffix, n) == prefix \o Digit(n) \o suffix

\* __init__ that takes the cleanup flag for the cleaned flag
NamedTemporaryDir_flag(prefix, suffix, cleanup_flag, n) ==
  [made |-> TRUE, path |-> mkdtemp(prefix, suffix \o <<"_", "t", "m", "p">>, n),
   readonly |-> TRUE, cleaned |-> cleanup_flag]

\* __init__: the new object (the directory itself is made by the caller)
NamedTemporaryDir(prefix, suffix, cleanup_flag, n) ==
  [made |-> TRUE, path |-> mkdtemp(prefix, suffix \o Marker, n),
   readonly |-> TRUE, cleaned |-> ~cleanup_flag]

NoDir == [made |-> FALSE, path |-> <<>>, readonly |-> TRUE, cleaned |-> TRUE]

DictRemove(d, k) == [x \in (DOMAIN d) \ {k} |-> d[x]]

\* write_tree: the export of the whole tree
TreeFiles(tree) ==
  {Inventory(tree)[id].path : id \in {i \in DOMAIN Inventory(tree) : Inventory(tree)[i].kind = "file"}}

\* write_files: one flat file per id the tree has
FlatFiles(tree, ids) ==
  {basename(id2path(tree, ids[i])) : i \in {j \in DOMAIN ids : has_id(tree, ids[j])}}

\* write_stuff
write_stuff(files, dir, tree, ids, use_tree_flag) ==
  IF use_tree_flag
  THEN DictSet(DictRemove(files, dir.path), dir.path, TreeFiles(tree))
  ELSE DictSet(files, dir.path, FlatFiles(tree, ids))

\* cleanup() that never records that it has cleaned
cleanup_dir_noflag(dir, files) ==
  IF ~EndsWith(dir.path, <<"_", "t", "m", "p">>)
  THEN [dir |-> dir, files |-> files, rmtree |-> FALSE, exc |-> "BzrError"]
  ELSE IF ~dir.cleaned
  THEN [dir |-> dir,
        files |-> [x \in (DOMAIN files) \ {dir.path} |-> files[x]],
        rmtree |-> TRUE,
        exc |-> IF dir.path \in DOMAIN files THEN None ELSE "OSError"]
  ELSE [dir |-> dir, files |-> files, rmtree |-> FALSE, exc |-> None]

\* cleanup() that looks at the path only once the directory is removed
cleanup_dir_latecheck(dir, files) ==
  IF ~dir.cleaned
  THEN [dir |-> [dir EXCEPT !.cleaned = TRUE],
        files |-> [x \in (DOMAIN files) \ {dir.path} |-> files[x]],
        rmtree |-> TRUE,
        exc |-> IF ~EndsWith(dir.path, <<"_", "t", "m", "p">>) THEN "BzrError"
                ELSE IF dir.path \in DOMAIN files THEN None ELSE "OSError"]
  ELSE [dir |-> dir, files |-> files, rmtree |-> FALSE,
        exc |-> IF ~EndsWith(dir.path, <<"_", "t", "m", "p">>) THEN "BzrError" ELSE None]

\* cleanup(): the object and the file system afterwards, whether osutils.rmtree
\* was called, and the error raised (None when it returns)
cleanup_dir(dir, files) ==
  IF ~EndsWith(dir.path, Marker)
  THEN [dir |-> dir, files |-> files, rmtree |-> FALSE, exc |-> "BzrError"]
  ELSE IF ~dir.cleaned
  THEN [dir |-> [dir EXCEPT !.cleaned = TRUE],
        files |-> DictRemove(files, dir.path),
        rmtree |-> TRUE,
        exc |-> IF dir.path \in DOMAIN files THEN None ELSE "OSError"]
  ELSE [dir |-> dir, files |-> files, rmtree |-> FALSE, exc |-> None]

(***************************************************************************)
(* controller.py: the read locks.  locks counts, per tree object, the read *)
(* locks held on it.                                                       *)
(***************************************************************************)
\* the tree objects: 1 is work_tree1, 2 is work_tree2
TreeSlots == {1, 2}

\* unlock that leaves the lock held
unlock_noop(l, t) == l

unlock(l, t) == [l EXCEPT ![t] = @ - 1]

\* lock_read that takes no lock
lock_read_noop(l, t) == l

lock_read(l, t) == [l EXCEPT ![t] = @ + 1]

\* get_read_locks that locks the first tree only
get_read_locks_first(l, tree_list) ==
  IF tree_list = <<>> THEN l ELSE lock_read(l, Head(tree_list))

RECURSIVE get_read_locks(_, _)
get_read_locks(l, tree_list) ==
  IF tree_list = <<>> THEN l
  ELSE get_read_locks(lock_read(l, Head(tree_list)), Tail(tree_list))

\* release_read_locks that unlocks nothing
release_read_locks_none(l, tree_list) == l

\* release_read_locks that unlocks the first tree only
release_read_locks_first(l, tree_list) ==
  IF tree_list = <<>> THEN l ELSE unlock(l, Head(tree_list))

RECURSIVE release_read_locks(_, _)
release_read_locks(l, tree_list) ==
  IF tree_list = <<>> THEN l
  ELSE release_read_locks(unlock(l, Head(tree_list)), Tail(tree_list))

(***************************************************************************)
(* State.                                                                  *)
(***************************************************************************)
VARIABLES
  known_tools,        \* ExternalTool.known_tools
  dicts,              \* the capabilities dicts, by key
  as_registered,      \* each registered exemplar as register was given it
  pc,                 \* where the invocation of Controller.run stands
  checked,            \* the last ExternalTool.check_path call: the name, and the answer
  tool, file_list, rev1, rev2,                 \* the arguments of compare_using
  b1, work_tree1, file_ids1, remainder,        \* results of get_tree_files
  b2, work_tree2, file_ids2, b2_in_working_tree, trees_to_lock,
  in_subdir, in_working_tree, use_tree, adjust_path, cleanup,
  old_tree, old_hint, new_tree, new_case, delta, specific_files,
  new_tmp_dir, old_tmp_dir, new_path, old_path,
  result,             \* the value compare_using returns
  exc,                \* the exception being raised, None when there is none
  locks,              \* read locks held, per tree object
  lock_reads,         \* lock_read calls made so far
  files,              \* the temporary directories on disk
  made,               \* NamedTemporaryDir objects constructed so far
  rmtree_log,         \* the paths osutils.rmtree was called with, in order
  run_log,            \* what tool.run was given and did
  area,               \* a NamedTemporaryDir used on its own
  cleanup_calls,      \* cleanup() calls made on area
  cleanup_exc         \* what the last cleanup() call on area raised

regVars == <<known_tools, dicts, as_registered>>
argVars == <<checked, tool, file_list, rev1, rev2>>
treeVars == <<b1, work_tree1, file_ids1, remainder, b2, work_tree2, file_ids2,
              b2_in_working_tree, trees_to_lock>>
modeVars == <<in_subdir, in_working_tree, use_tree, adjust_path, cleanup>>
sideVars == <<old_tree, old_hint, new_tree, new_case, delta, specific_files>>
dirVars == <<new_tmp_dir, old_tmp_dir, new_path, old_path, files, made, rmtree_log>>
areaVars == <<area, cleanup_calls, cleanup_exc>>

vars == <<regVars, pc, argVars, treeVars, modeVars, sideVars, dirVars, result, exc,
          locks, lock_reads, run_log, areaVars>>

NotChecked == [name |-> None, found |-> FALSE]

NoTool == [class |-> None, command |-> None, options |-> <<>>, capabilities |-> None]

NoDelta == [removed |-> <<>>, added |-> <<>>, renamed |-> <<>>, modified |-> <<>>,
            computed |-> FALSE]

NoRun == [called |-> FALSE, declined |-> FALSE, old_path |-> <<>>, new_path |-> <<>>,
          path_list |-> <<>>, listed |-> FALSE, spawned |-> <<>>, val |-> None]

\* everything but the registry, before Controller.run is called
Idle ==
  /\ checked = NotChecked
  /\ tool = NoTool /\ file_list = <<>> /\ rev1 = NoRev /\ rev2 = NoRev
  /\ b1 = None /\ work_tree1 = NoTree /\ file_ids1 = <<>> /\ remainder = <<>>
  /\ b2 = None /\ work_tree2 = NoTree /\ file_ids2 = <<>>
  /\ b2_in_working_tree = FALSE /\ trees_to_lock = <<>>
  /\ in_subdir = FALSE /\ in_working_tree = FALSE /\ use_tree = FALSE
  /\ adjust_path = <<>> /\ cleanup = FALSE
  /\ old_tree = NoTree /\ old_hint = <<>> /\ new_tree = NoTree /\ new_case = None
  /\ delta = NoDelta /\ specific_files = <<>>
  /\ new_tmp_dir = NoDir /\ old_tmp_dir = NoDir /\ new_path = <<>> /\ old_path = <<>>
  /\ result = -1 /\ exc = None
  /\ locks = [t \in TreeSlots |-> 0] /\ lock_reads = 0
  /\ made = 0 /\ rmtree_log = <<>> /\ run_log = NoRun

Init ==
  /\ known_tools = InitialKnownTools
  /\ dicts = InitialDicts
  /\ as_registered = InitialRegistered
  /\ pc = "idle"
  /\ Idle
  /\ files = EmptyDict
  /\ area = NoDir /\ cleanup_calls = 0 /\ cleanup_exc = None

(***************************************************************************)
(* controller.py: Controller.run, up to the call of compare_using.         *)
(***************************************************************************)
\* the tool names, option strings, path lists and revision lists tried
Using == {"meld", "vimdiff", "opendiff", "udiff"}

DiffOptionsIn == {<<>>, <<"-", "w">>}

FileListsIn == UNION {[1..n -> Paths] : n \in 0..MaxFiles}

RevisionsIn == UNION {[1..n -> RevSpecs] : n \in 0..MaxRevs}

\* ExternalTool.find: a shallow copy of the exemplar, None when not registered
find(known, kind, name) ==
  IF kind \in DOMAIN known /\ name \in DOMAIN known[kind]
  THEN known[kind][name]
  ELSE NoTool

\* check_path that finds every tool
check_path_found(on_path) == None

\* ExternalTool.check_path: the error raised when no entry of PATH holds the
\* tool (on_path tells whether one does), None when it returns
check_path(on_path) == IF ~on_path THEN "BzrError: Cannot find" ELSE None

\* lines 51-61: the revisions compare_using is called with, or the error
Dispatch(revision) ==
  IF Len(revision) > 0
  THEN IF Len(revision) = 1 \/ revision[2].spec = 0
       THEN [rev1 |-> revision[1], rev2 |-> NoRev, exc |-> None]
       ELSE IF Len(revision) = 2
       THEN [rev1 |-> revision[1], rev2 |-> revision[2], exc |-> None]
       ELSE [rev1 |-> NoRev, rev2 |-> NoRev, exc |-> "BzrCommandError: --revision"]
  ELSE [rev1 |-> NoRev, rev2 |-> NoRev, exc |-> None]

\* Controller.run(file_list, revision, using, diff_options); on_path tells
\* whether some entry of PATH holds the tool
Run(using, diff_options, list, revision, on_path) ==
  /\ LET found == find(known_tools, "diff", using)
         d == Dispatch(revision)
     IN IF check_path(on_path) # None
        THEN \* find_diff_tool raises, for a registered tool and a new one
             /\ exc' = check_path(on_path)
             /\ pc' = "raised"
             /\ UNCHANGED <<dicts, tool, file_list, rev1, rev2>>
        ELSE /\ tool' = add_options(IF found # NoTool THEN found
                                    ELSE NewTool("TreeDiffTool", using, <<>>),
                                    diff_options)
             /\ dicts' = IF found # NoTool THEN dicts
                         ELSE DictSet(dicts, using, NewCapabilities("TreeDiffTool", EmptyDict))
             /\ file_list' = IF Len(list) = 0 THEN <<Cwd>> ELSE list
             /\ rev1' = d.rev1
             /\ rev2' = d.rev2
             /\ exc' = d.exc
             /\ pc' = IF d.exc # None THEN "raised" ELSE "gtf1"
  /\ checked' = [name |-> using, found |-> on_path]
  /\ UNCHANGED <<known_tools, as_registered, treeVars, modeVars, sideVars, dirVars, result,
                 locks, lock_reads, run_log, areaVars>>

\* when no entry of PATH holds the tool, find_diff_tool raises before any other
\* argument is looked at, so one value of each stands for all
ControllerRun ==
  /\ pc = "idle"
  /\ \E using \in Using, on_path \in BOOLEAN :
       \E diff_options \in (IF on_path THEN DiffOptionsIn ELSE {<<>>}),
          list \in (IF on_path THEN FileListsIn ELSE {<<>>}),
          revision \in (IF on_path THEN RevisionsIn ELSE {<<>>}) :
         Run(using, diff_options, list, revision, on_path)

(***************************************************************************)
(* controller.py: compare_using, lines 80-95.                              *)
(***************************************************************************)
\* get_tree_files(file_list), line 241: the first tree is read-locked
GetTreeFilesLock1 ==
  /\ pc = "gtf1"
  /\ locks' = lock_read(locks, 1)
  /\ lock_reads' = lock_reads + 1
  /\ pc' = "gtf1_locked"
  /\ UNCHANGED <<regVars, argVars, treeVars, modeVars, sideVars, dirVars, result, exc,
                 run_log, areaVars>>

\* get_tree_files(file_list), lines 244-272, and lines 81-83, 92-93
GetTreeFilesReturn1 ==
  /\ pc = "gtf1_locked"
  /\ LET r == get_tree_files(file_list)
     IN /\ locks' = unlock(locks, 1)
        /\ IF r.exc # None
           THEN /\ exc' = r.exc
                /\ pc' = "raised"
                /\ UNCHANGED treeVars
           ELSE /\ b1' = r.branch
                /\ work_tree1' = r.tree
                /\ file_ids1' = r.file_ids
                /\ remainder' = r.remainder
                /\ trees_to_lock' = <<1>>
                /\ pc' = IF Len(r.remainder) > 0 THEN "gtf2" ELSE "lock1"
                /\ UNCHANGED <<b2, work_tree2, file_ids2, b2_in_working_tree, exc>>
  /\ UNCHANGED <<regVars, argVars, modeVars, sideVars, dirVars, result, lock_reads,
                 run_log, areaVars>>

\* get_tree_files(remainder), line 241: the second tree is read-locked
GetTreeFilesLock2 ==
  /\ pc = "gtf2"
  /\ locks' = lock_read(locks, 2)
  /\ lock_reads' = lock_reads + 1
  /\ pc' = "gtf2_locked"
  /\ UNCHANGED <<regVars, argVars, treeVars, modeVars, sideVars, dirVars, result, exc,
                 run_log, areaVars>>

\* the usage checks with the test of the revisions made first
UsageError_revs_first(rest, r1, r2) ==
  IF r1.given \/ r2.given
  THEN "BzrCommandError: Cannot specify -r with multiple branches"
  ELSE IF Len(rest) > 0
  THEN "BzrCommandError: Cannot compare more than two branches"
  ELSE None

\* lines 87-90: the usage error raised once the second list is resolved, None
\* when there is none; rest is what the second get_tree_files left over
UsageError(rest, r1, r2) ==
  IF Len(rest) > 0
  THEN "BzrCommandError: Cannot compare more than two branches"
  ELSE IF r1.given \/ r2.given
  THEN "BzrCommandError: Cannot specify -r with multiple branches"
  ELSE None

\* get_tree_files(remainder), lines 244-272, and lines 84-90
GetTreeFilesReturn2 ==
  /\ pc = "gtf2_locked"
  /\ LET r == get_tree_files(remainder)
     IN /\ locks' = unlock(locks, 2)
        /\ IF r.exc # None
           THEN /\ exc' = r.exc
                /\ pc' = "raised"
                /\ UNCHANGED treeVars
           ELSE /\ b2' = r.branch
                /\ work_tree2' = r.tree
                /\ file_ids2' = r.file_ids
                /\ remainder' = r.remainder
                /\ b2_in_working_tree' = IsWorkingTree(r.tree)
                /\ trees_to_lock' = Append(trees_to_lock, 2)
                /\ exc' = UsageError(r.remainder, rev1, rev2)
                /\ pc' = IF UsageError(r.remainder, rev1, rev2) # None
                         THEN "raised" ELSE "lock1"
                /\ UNCHANGED <<b1, work_tree1, file_ids1>>
  /\ UNCHANGED <<regVars, argVars, modeVars, sideVars, dirVars, result, lock_reads,
                 run_log, areaVars>>

(***************************************************************************)
(* compare_using, lines 95-122: the mode, under the read locks.            *)
(***************************************************************************)
\* line 95
GetReadLocks1 ==
  /\ pc = "lock1"
  /\ locks' = get_read_locks(locks, trees_to_lock)
  /\ lock_reads' = lock_reads + Len(trees_to_lock)
  /\ pc' = "mode"
  /\ UNCHANGED <<regVars, argVars, treeVars, modeVars, sideVars, dirVars, result, exc,
                 run_log, areaVars>>

\* lines 103-108
UseTree(list, subdir, branch2) ==
  IF Len(list) = 1 /\ ~subdir THEN FALSE
  ELSE IF branch2 # None /\ ~subdir THEN FALSE
  ELSE TRUE

\* lines 111-117
AdjustPath(list, subdir, branch2, tree, ids) ==
  IF Len(list) = 1 \/ branch2 # None
  THEN IF subdir THEN id2path(tree, ids[1]) ELSE basename(PathString(list[1]))
  ELSE <<>>

\* lines 98-119
ModeSelect ==
  /\ pc = "mode"
  /\ IF file_ids1 = <<>>
     THEN /\ exc' = "IndexError"
          /\ UNCHANGED modeVars
     ELSE LET kind == get_file_kind(work_tree1, file_ids1[1])
              subdir == kind = "directory" \/ kind = "root_directory"
          IN /\ in_subdir' = subdir
             /\ in_working_tree' = IsWorkingTree(work_tree1)
             /\ use_tree' = UseTree(file_list, subdir, b2)
             /\ adjust_path' = AdjustPath(file_list, subdir, b2, work_tree1, file_ids1)
             /\ cleanup' = supports(dicts[tool.capabilities], "cleanup")
             /\ UNCHANGED exc
  /\ pc' = "finally1"
  /\ UNCHANGED <<regVars, argVars, treeVars, sideVars, dirVars, result, locks,
                 lock_reads, run_log, areaVars>>

\* lines 121-122
ReleaseReadLocks1 ==
  /\ pc = "finally1"
  /\ locks' = release_read_locks(locks, trees_to_lock)
  /\ pc' = IF exc # None THEN "raised" ELSE "old_tree"
  /\ UNCHANGED <<regVars, argVars, treeVars, modeVars, sideVars, dirVars, result, exc,
                 lock_reads, run_log, areaVars>>

(***************************************************************************)
(* compare_using, lines 124-190: the two sides, the delta and the staging. *)
(***************************************************************************)
\* "-rev%s" % revno; the unset spec has revno None
RevHint(n) ==
  <<"-", "r", "e", "v">> \o (IF n = 0 THEN <<"N", "o", "n", "e">> ELSE Digit(n))

BasisHint == <<"-", "b", "a", "s", "i", "s">>

NickHint(b) == <<"-">> \o Nick(b)

\* lines 126-134
OldTree ==
  /\ pc = "old_tree"
  /\ IF rev1.given
     THEN IF InHistoryRaises(rev1, b1)
          THEN /\ exc' = "NoSuchRevision"
               /\ pc' = "raised"
               /\ UNCHANGED <<old_tree, old_hint>>
          ELSE /\ old_tree' = RevisionTreeOf(b1, InHistoryRevno(rev1, b1))
               /\ old_hint' = RevHint(InHistoryRevno(rev1, b1))
               /\ pc' = "lock2"
               /\ UNCHANGED exc
     ELSE /\ old_tree' = IF b2 # None THEN work_tree1 ELSE basis_tree(b1)
          /\ old_hint' = IF b2 # None THEN NickHint(b1) ELSE BasisHint
          /\ pc' = "lock2"
          /\ UNCHANGED exc
  /\ UNCHANGED <<regVars, argVars, treeVars, modeVars, new_tree, new_case, delta,
                 specific_files, dirVars, result, locks, lock_reads, run_log, areaVars>>

\* line 136
GetReadLocks2 ==
  /\ pc = "lock2"
  /\ locks' = get_read_locks(locks, trees_to_lock)
  /\ lock_reads' = lock_reads + Len(trees_to_lock)
  /\ pc' = "new_side"
  /\ UNCHANGED <<regVars, argVars, treeVars, modeVars, sideVars, dirVars, result, exc,
                 run_log, areaVars>>

\* lines 140-169: which branch of the if is taken
NewCase ==
  IF rev2.given THEN "rev2"
  ELSE IF b2_in_working_tree THEN "b2_working_tree"
  ELSE IF b2 # None THEN "b2_no_working_tree"
  ELSE IF ~in_working_tree THEN "basis"
  ELSE "in_place"

\* the new tree, with the first revision taken for the second
NewTree_rev1(c) ==
  CASE c = "rev2" -> RevisionTreeOf(b1, InHistoryRevno(rev1, b1))
    [] c \in {"b2_working_tree", "b2_no_working_tree"} -> work_tree2
    [] c = "basis" -> basis_tree(b1)
    [] OTHER -> work_tree1

\* the new tree, with the revision before the latest taken for the basis
NewTree_parent(c) ==
  CASE c = "rev2" -> RevisionTreeOf(b1, InHistoryRevno(rev2, b1))
    [] c \in {"b2_working_tree", "b2_no_working_tree"} -> work_tree2
    [] c = "basis" -> RevisionTreeOf(b1, RevNo(b1) - 1)
    [] OTHER -> work_tree1

\* the new tree of each case
NewTree(c) ==
  CASE c = "rev2" -> RevisionTreeOf(b1, InHistoryRevno(rev2, b1))
    [] c \in {"b2_working_tree", "b2_no_working_tree"} -> work_tree2
    [] c = "basis" -> basis_tree(b1)
    [] OTHER -> work_tree1

\* the ids of the first branch handed over in every case
NewIds_first(c) == file_ids1

\* the file ids each case hands to get_diffs_or_stop and to write_stuff
NewIds(c) ==
  IF c \in {"b2_working_tree", "b2_no_working_tree"} THEN file_ids2 ELSE file_ids1

NewHint(c) ==
  CASE c = "rev2" -> RevHint(InHistoryRevno(rev2, b1))
    [] c = "b2_no_working_tree" -> NickHint(b2)
    [] OTHER -> BasisHint

\* the cases that stage the new side
StagesNew(c) == c \in {"rev2", "b2_no_working_tree", "basis"}

\* lines 150-153 and 172-175: the path of a side that is compared in place
InPlacePath(tree, ids) ==
  IF Len(file_list) = 1 THEN id2abspath(tree, ids[1]) ELSE abspath(tree, <<>>)

Computed(d) ==
  [removed |-> d.removed, added |-> d.added, renamed |-> d.renamed,
   modified |-> d.modified, computed |-> TRUE]

\* lines 140-143, 149, 156, 163-164, 171-175: the new tree and the delta
NewSide ==
  /\ pc = "new_side"
  /\ LET c == NewCase
     IN /\ new_case' = c
        /\ IF c = "rev2" /\ InHistoryRaises(rev2, b1)
           THEN /\ exc' = "NoSuchRevision"
                /\ pc' = "finally2"
                /\ UNCHANGED <<new_tree, delta, specific_files, new_path>>
           ELSE /\ new_tree' = NewTree(c)
                /\ specific_files' = DiffPathList(NewTree(c), NewIds(c))
                /\ \E d \in changes_from(NewTree(c), old_tree,
                                         DiffPathList(NewTree(c), NewIds(c))) :
                     /\ delta' = Computed(d)
                     /\ IF NoDifferences(d)
                        THEN /\ exc' = "NoDifferencesFound"
                             /\ pc' = "finally2"
                             /\ UNCHANGED new_path
                        ELSE /\ pc' = IF StagesNew(c) THEN "new_stage" ELSE "old_side"
                             /\ new_path' = IF StagesNew(c) THEN new_path
                                            ELSE InPlacePath(NewTree(c), NewIds(c))
                             /\ UNCHANGED exc
  /\ UNCHANGED <<regVars, argVars, treeVars, modeVars, old_tree, old_hint,
                 new_tmp_dir, old_tmp_dir, old_path, files, made, rmtree_log,
                 result, locks, lock_reads, run_log, areaVars>>

\* what creating and writing a temporary directory may come to
StageOutcomes == {"ok", "mkdtemp fails", "write fails", "export fails"}

\* NamedTemporaryDir(tmp_prefix, hint, cleanup) and write_stuff(tree, ids,
\* use_tree): the object, the file system and the error raised
Stage(hint, tree, ids, outcome) ==
  LET dir == NamedTemporaryDir(tmp_prefix, hint, cleanup, made)
  IN CASE outcome = "ok" ->
            [dir |-> dir, files |-> write_stuff(DictSet(files, dir.path, {}), dir, tree, ids, use_tree),
             exc |-> None]
       [] outcome = "mkdtemp fails" ->
            [dir |-> NoDir, files |-> files, exc |-> "OSError"]
       [] outcome = "write fails" ->
            [dir |-> dir, files |-> DictSet(files, dir.path, {}), exc |-> "IOError"]
       [] OTHER ->
            \* write_tree: the directory was deleted and the export made nothing
            [dir |-> dir, files |-> DictRemove(files, dir.path), exc |-> "BzrError: export"]

\* lines 144-146, 158-160, 166-168
NewStage(outcome) ==
  /\ outcome = "export fails" => use_tree
  /\ LET st == Stage(NewHint(new_case), new_tree, NewIds(new_case), outcome)
     IN /\ new_tmp_dir' = st.dir
        /\ files' = st.files
        /\ made' = IF st.dir.made THEN made + 1 ELSE made
        /\ exc' = st.exc
        /\ new_path' = IF st.exc = None THEN pathjoin(st.dir.path, adjust_path) ELSE new_path
        /\ pc' = IF st.exc = None THEN "old_side" ELSE "finally2"
  /\ UNCHANGED <<regVars, argVars, treeVars, modeVars, sideVars, old_tmp_dir, old_path,
                 rmtree_log, result, locks, lock_reads, run_log, areaVars>>

\* lines 178-186
OldSide(outcome) ==
  /\ IF b2 # None /\ in_working_tree
     THEN /\ outcome = "ok"
          /\ old_path' = InPlacePath(work_tree1, file_ids1)
          /\ UNCHANGED <<old_tmp_dir, files, made, exc>>
     ELSE /\ outcome = "export fails" => use_tree
          /\ LET st == Stage(old_hint, old_tree, file_ids1, outcome)
             IN /\ old_tmp_dir' = st.dir
                /\ files' = st.files
                /\ made' = IF st.dir.made THEN made + 1 ELSE made
                /\ exc' = st.exc
                /\ old_path' = IF st.exc = None THEN pathjoin(st.dir.path, adjust_path)
                               ELSE old_path
  /\ pc' = "finally2"
  /\ UNCHANGED <<regVars, argVars, treeVars, modeVars, sideVars, new_tmp_dir, new_path,
                 rmtree_log, result, locks, lock_reads, run_log, areaVars>>

StageNew == pc = "new_stage" /\ \E outcome \in StageOutcomes : NewStage(outcome)

StageOld == pc = "old_side" /\ \E outcome \in StageOutcomes : OldSide(outcome)

\* lines 188-190, and the handler of lines 212-213
ReleaseReadLocks2 ==
  /\ pc = "finally2"
  /\ locks' = release_read_locks(locks, trees_to_lock)
  /\ IF exc = "NoDifferencesFound"
     THEN /\ result' = 0
          /\ exc' = None
          /\ pc' = "returned"
     ELSE /\ pc' = IF exc # None THEN "raised" ELSE "run"
          /\ UNCHANGED <<result, exc>>
  /\ UNCHANGED <<regVars, argVars, treeVars, modeVars, sideVars, dirVars, lock_reads,
                 run_log, areaVars>>

(***************************************************************************)
(* compare_using, lines 192-215, and difftool.py: the run of the tool.     *)
(***************************************************************************)
\* what the user may answer to the confirmation, and the tool's exit codes
Answers ==
  {<<"n">>, <<"N">>, <<"n", "o">>, <<"N", "o">>, <<"n", "O">>, <<"N", "O">>,
   <<"y">>, <<"Y">>, <<"o", "n">>, <<"n", "o", "n">>, <<" ", "n">>, <<>>}

ExitCodes == {0, 1, 2}

\* the path list that takes every modified entry, changed in text or not
RECURSIVE PathList_all(_, _)
PathList_all(modified, adjust) ==
  IF modified = <<>> THEN <<>>
  ELSE <<IF adjust # <<>> THEN ReplaceFirst(Head(modified).path, adjust, <<".">>)
         ELSE Head(modified).path>> \o PathList_all(Tail(modified), adjust)

\* lines 199-206: the iterative path list
RECURSIVE PathList(_, _)
PathList(modified, adjust) ==
  IF modified = <<>> THEN <<>>
  ELSE (IF Head(modified).text_mods
        THEN <<IF adjust # <<>> THEN ReplaceFirst(Head(modified).path, adjust, <<".">>)
               ELSE Head(modified).path>>
        ELSE <<>>) \o PathList(Tail(modified), adjust)

\* lines 193-197: the tool is run on the two paths alone
RunsWithoutList ==
  \/ supports(dicts[tool.capabilities], "recursive")
  \/ (Len(file_list) = 1 /\ ~in_subdir)

\* DiffTool.run(old_path, new_path): one process
DiffToolRun(old, new, exit) ==
  [declined |-> FALSE, spawned |-> << <<old, new>> >>, result |-> exit, val |-> None]

\* ListDiffTool.run(old_path, new_path, file_list); listed is false when
\* file_list is left at None
ListDiffToolRun(old, new, listed, list, answer, exit) ==
  LET \* lines 152-155: the confirmation is asked for, val is the answer
      val == IF /\ supports(dicts[tool.capabilities], "interactive")
                /\ listed /\ Len(list) > 1
             THEN answer ELSE None
  IN IF val # None /\ Lower(val) \in {<<"n">>, <<"n", "o">>}
     THEN [declined |-> TRUE, spawned |-> <<>>, result |-> 1, val |-> val]
     ELSE IF listed /\ Len(list) > 0
     THEN [declined |-> FALSE,
           spawned |-> [i \in 1..Len(list) |->
                          <<pathjoin(new, list[i]), pathjoin(old, list[i])>>],
           result |-> exit, val |-> val]
     ELSE [declined |-> FALSE, spawned |-> << <<new, old>> >>, result |-> exit, val |-> val]

\* the tool's own result, returned as it is
FinalResult_exit(tool_result) == tool_result

\* line 210: the result of compare_using once the tool has run
FinalResult(tool_result) == 1

\* lines 193-210 and 215; raises tells whether subprocess.call raises
ToolRun(answer, exit, raises) ==
  /\ LET listed == ~RunsWithoutList
         list == IF listed THEN PathList(delta.modified, adjust_path) ELSE <<>>
         r == IF tool.class = "ListDiffTool"
              THEN ListDiffToolRun(old_path, new_path, listed, list, answer, exit)
              ELSE DiffToolRun(old_path, new_path, exit)
     IN IF tool.class # "ListDiffTool" /\ listed
        THEN \* DiffTool.run takes no path list
             /\ exc' = "TypeError"
             /\ pc' = "raised"
             /\ UNCHANGED <<run_log, result>>
        ELSE /\ run_log' = [called |-> TRUE, declined |-> r.declined,
                            old_path |-> old_path, new_path |-> new_path,
                            path_list |-> list, listed |-> listed,
                            spawned |-> IF raises /\ ~r.declined THEN <<>> ELSE r.spawned,
                            val |-> r.val]
             /\ IF raises /\ ~r.declined
                THEN /\ exc' = "OSError"
                     /\ pc' = "raised"
                     /\ UNCHANGED result
                ELSE /\ result' = FinalResult(r.result)
                     /\ pc' = "returned"
                     /\ UNCHANGED exc
  /\ UNCHANGED <<regVars, argVars, treeVars, modeVars, sideVars, dirVars, locks,
                 lock_reads, areaVars>>

\* difftool.py lines 152-155: raw_input is called, so the user answers
Confirms ==
  /\ tool.class = "ListDiffTool"
  /\ supports(dicts[tool.capabilities], "interactive")
  /\ ~RunsWithoutList
  /\ Len(PathList(delta.modified, adjust_path)) > 1

RunTool ==
  /\ pc = "run"
  /\ \E answer \in (IF Confirms THEN Answers ELSE {<<>>}),
        exit \in ExitCodes, raises \in BOOLEAN :
       ToolRun(answer, exit, raises)

(***************************************************************************)
(* The end of the invocation: the locals of compare_using are dropped and  *)
(* __del__ runs cleanup() on each NamedTemporaryDir; an error raised in    *)
(* __del__ is ignored.                                                     *)
(***************************************************************************)
\* __del__ of one object (nothing when there is none)
Del(dir, fs) ==
  IF dir.made THEN cleanup_dir(dir, fs)
  ELSE [dir |-> dir, files |-> fs, rmtree |-> FALSE, exc |-> None]

EndInvocation ==
  /\ pc \in {"returned", "raised"}
  /\ LET n == Del(new_tmp_dir, files)
         o == Del(old_tmp_dir, n.files)
     IN /\ files' = o.files
        /\ rmtree_log' = rmtree_log
                           \o (IF n.rmtree THEN <<new_tmp_dir.path>> ELSE <<>>)
                           \o (IF o.rmtree THEN <<old_tmp_dir.path>> ELSE <<>>)
        /\ new_tmp_dir' = n.dir
        /\ old_tmp_dir' = o.dir
  /\ pc' = "ended"
  /\ UNCHANGED <<regVars, argVars, treeVars, modeVars, sideVars, new_path, old_path,
                 made, result, exc, locks, lock_reads, run_log, areaVars>>

Next ==
  \/ ControllerRun
  \/ GetTreeFilesLock1
  \/ GetTreeFilesReturn1
  \/ GetTreeFilesLock2
  \/ GetTreeFilesReturn2
  \/ GetReadLocks1
  \/ ModeSelect
  \/ ReleaseReadLocks1
  \/ OldTree
  \/ GetReadLocks2
  \/ NewSide
  \/ StageNew
  \/ StageOld
  \/ ReleaseReadLocks2
  \/ RunTool
  \/ EndInvocation

Spec == Init /\ [][Next]_vars

(***************************************************************************)
(* tempdir.py on its own: one NamedTemporaryDir, made by the constructor   *)
(* or with its path attribute set to any short name, on which cleanup() is *)
(* called explicitly and then by __del__.                                  *)
(***************************************************************************)
PathChars == {"_", "t", "m", "p", "a"}

ArbitraryPaths == UNION {[1..n -> PathChars] : n \in 0..MaxPathLen}

AreaObjects ==
  {NamedTemporaryDir(prefix, suffix, c, 0) :
     prefix \in {<<>>, tmp_prefix}, suffix \in {<<>>, BasisHint}, c \in BOOLEAN}
    \cup [made : {TRUE}, path : ArbitraryPaths, readonly : {TRUE}, cleaned : BOOLEAN]

InitDir ==
  /\ known_tools = InitialKnownTools
  /\ dicts = InitialDicts
  /\ as_registered = InitialRegistered
  /\ pc = "area"
  /\ Idle
  /\ area \in AreaObjects
  /\ files \in {EmptyDict, DictSet(EmptyDict, area.path, {})}
  /\ cleanup_calls = 0 /\ cleanup_exc = None

\* an explicit area.cleanup()
AreaCleanup ==
  /\ pc = "area"
  /\ cleanup_calls < MaxCleanupCalls
  /\ LET r == cleanup_dir(area, files)
     IN /\ area' = r.dir
        /\ files' = r.files
        /\ rmtree_log' = IF r.rmtree THEN Append(rmtree_log, area.path) ELSE rmtree_log
        /\ cleanup_exc' = r.exc
  /\ cleanup_calls' = cleanup_calls + 1
  /\ UNCHANGED <<regVars, pc, argVars, treeVars, modeVars, sideVars, new_tmp_dir,
                 old_tmp_dir, new_path, old_path, made, result, exc, locks, lock_reads,
                 run_log>>

\* the object is dropped: __del__ calls cleanup() a last time
AreaDel ==
  /\ pc = "area"
  /\ LET r == Del(area, files)
     IN /\ area' = r.dir
        /\ files' = r.files
        /\ rmtree_log' = IF r.rmtree THEN Append(rmtree_log, area.path) ELSE rmtree_log
        /\ cleanup_exc' = r.exc
  /\ cleanup_calls' = cleanup_calls + 1
  /\ pc' = "area_dropped"
  /\ UNCHANGED <<regVars, argVars, treeVars, modeVars, sideVars, new_tmp_dir,
                 old_tmp_dir, new_path, old_path, made, result, exc, locks, lock_reads,
                 run_log>>

NextDir == AreaCleanup \/ AreaDel

SpecDir == InitDir /\ [][NextDir]_vars

(***************************************************************************)
(* controller.py: get_tree_files on its own, called with any list of up to *)
(* MaxInput paths, as compare_using calls it first.                        *)
(***************************************************************************)
InputLists == UNION {[1..n -> Paths] : n \in 1..MaxInput}

\* the revisions compare_using is called with: none, one, two
RevPairs ==
  { <<NoRev, NoRev>>, <<RevisionSpec(1), NoRev>>, <<RevisionSpec(1), RevisionSpec(2)>> }

\* compare_using has been called with the tool meld, a list of lists and a
\* pair of revisions of revs
CalledWith(lists, revs) ==
  /\ known_tools = InitialKnownTools
  /\ dicts = InitialDicts
  /\ as_registered = InitialRegistered
  /\ pc = "gtf1"
  /\ checked = [name |-> "meld", found |-> TRUE]
  /\ tool = find(InitialKnownTools, "diff", "meld")
  /\ file_list \in lists
  /\ \E r \in revs : rev1 = r[1] /\ rev2 = r[2]
  /\ b1 = None /\ work_tree1 = NoTree /\ file_ids1 = <<>> /\ remainder = <<>>
  /\ b2 = None /\ work_tree2 = NoTree /\ file_ids2 = <<>>
  /\ b2_in_working_tree = FALSE /\ trees_to_lock = <<>>
  /\ in_subdir = FALSE /\ in_working_tree = FALSE /\ use_tree = FALSE
  /\ adjust_path = <<>> /\ cleanup = FALSE
  /\ old_tree = NoTree /\ old_hint = <<>> /\ new_tree = NoTree /\ new_case = None
  /\ delta = NoDelta /\ specific_files = <<>>
  /\ new_tmp_dir = NoDir /\ old_tmp_dir = NoDir /\ new_path = <<>> /\ old_path = <<>>
  /\ result = -1 /\ exc = None
  /\ locks = [t \in TreeSlots |-> 0] /\ lock_reads = 0
  /\ made = 0 /\ rmtree_log = <<>> /\ run_log = NoRun
  /\ files = EmptyDict
  /\ area = NoDir /\ cleanup_calls = 0 /\ cleanup_exc = None

InitResolve == CalledWith(InputLists, {<<NoRev, NoRev>>})

NextResolve == GetTreeFilesLock1 \/ GetTreeFilesReturn1

SpecResolve == InitResolve /\ [][NextResolve]_vars

(***************************************************************************)
(* controller.py: compare_using up to its usage checks (lines 80-93),      *)
(* called with any list of up to MaxInput paths, with and without          *)
(* revisions.                                                              *)
(***************************************************************************)
InitUsage == CalledWith(InputLists, RevPairs)

NextUsage ==
  \/ GetTreeFilesLock1
  \/ GetTreeFilesReturn1
  \/ GetTreeFilesLock2
  \/ GetTreeFilesReturn2

SpecUsage == InitUsage /\ [][NextUsage]_vars

(***************************************************************************)
(* externtool.py and difftool.py on their own: the registry and the        *)
(* instance a caller holds, under any calls of register_diff_tool and      *)
(* find_diff_tool, and of add_options and supports(key, value) on the      *)
(* instance found.                                                         *)
(***************************************************************************)
MaxRegistrations == 2

MaxOptionsLen == 5

\* the names looked up: one registered when controller.py is imported, one not
ToolNames == {"meld", "udiff"}

\* the exemplars register_diff_tool is given after the import
ExemplarsIn ==
  { [class |-> "ListDiffTool", name |-> "meld", diff_options |-> <<"-", "w">>,
     kwargs |-> EmptyDict],
    [class |-> "TreeDiffTool", name |-> "udiff", diff_options |-> <<>>,
     kwargs |-> DictSet(EmptyDict, "cleanup", FALSE)] }

\* the capabilities recorded on an instance: supports(key, value)
CapabilitiesIn == { <<"interactive", FALSE>>, <<"cleanup", TRUE>> }

\* ExternalTool.supports(key, value) with a value: the dict after the call
supports_value(d, key, value) == DictSet(d, key, value)

\* ExternalTool.register: known_tools after the call
register(known, kind, t) ==
  LET k == IF kind \in DOMAIN known THEN known ELSE DictSet(known, kind, EmptyDict)
  IN [k EXCEPT ![kind] = DictSet(@, t.command, t)]

\* the capabilities dicts made by constructors after the import
NewDicts == {n \in 1..MaxRegistrations : ToString(n) \in DOMAIN dicts}

\* the calls are made one after the other, in any order
ToolPcs == {"tools", "found", "changed"}

InitTools ==
  /\ known_tools = InitialKnownTools
  /\ dicts = InitialDicts
  /\ as_registered = InitialRegistered
  /\ pc = "tools"
  /\ Idle
  /\ files = EmptyDict
  /\ area = NoDir /\ cleanup_calls = 0 /\ cleanup_exc = None

\* register_diff_tool(cls(name, diff_options, **kwargs))
RegisterDiffTool ==
  /\ pc \in ToolPcs
  /\ Cardinality(NewDicts) < MaxRegistrations
  /\ \E e \in ExemplarsIn :
       LET key == ToString(Cardinality(NewDicts) + 1)
           c == NewCapabilities(e.class, e.kwargs)
           t == [NewTool(e.class, e.name, e.diff_options) EXCEPT !.capabilities = key]
       IN /\ supports(c, "diff")
          /\ known_tools' = register(known_tools, "diff", t)
          /\ dicts' = DictSet(dicts, key, c)
          /\ as_registered' =
               DictSet(as_registered, e.name,
                       [options |-> e.diff_options, capabilities |-> c])
  /\ pc' = "tools"
  /\ UNCHANGED <<argVars, treeVars, modeVars, sideVars, dirVars, result, exc,
                 locks, lock_reads, run_log, areaVars>>

\* tool = find_diff_tool(name); on_path tells whether some entry of PATH
\* holds the tool, and when none does the caller keeps what it held
FindDiffTool ==
  /\ pc \in ToolPcs
  /\ \E name \in ToolNames, on_path \in BOOLEAN :
       LET found == find(known_tools, "diff", name)
       IN /\ checked' = [name |-> name, found |-> on_path]
          /\ IF check_path(on_path) # None
             THEN /\ pc' = "tools"
                  /\ UNCHANGED <<dicts, tool>>
             ELSE /\ tool' = IF found # NoTool THEN found
                             ELSE NewTool("TreeDiffTool", name, <<>>)
                  /\ dicts' = IF found # NoTool THEN dicts
                              ELSE DictSet(dicts, name,
                                           NewCapabilities("TreeDiffTool", EmptyDict))
                  /\ pc' = "found"
  /\ UNCHANGED <<known_tools, as_registered, file_list, rev1, rev2, treeVars, modeVars,
                 sideVars, dirVars, result, exc, locks, lock_reads, run_log, areaVars>>

\* tool.add_options(options) on the instance held
AddOptions ==
  /\ pc \in {"found", "changed"}
  /\ \E options \in DiffOptionsIn :
       /\ Len(tool.options) + Len(options) + 1 <= MaxOptionsLen
       /\ tool' = add_options(tool, options)
  /\ pc' = "changed"
  /\ UNCHANGED <<regVars, checked, file_list, rev1, rev2, treeVars, modeVars, sideVars,
                 dirVars, result, exc, locks, lock_reads, run_log, areaVars>>

\* tool.supports(key, value) on the instance held
Supports ==
  /\ pc \in {"found", "changed"}
  /\ \E kv \in CapabilitiesIn :
       dicts' = [dicts EXCEPT ![tool.capabilities] = supports_value(@, kv[1], kv[2])]
  /\ pc' = "changed"
  /\ UNCHANGED <<known_tools, as_registered, argVars, treeVars, modeVars, sideVars,
                 dirVars, result, exc, locks, lock_reads, run_log, areaVars>>

NextTools == RegisterDiffTool \/ FindDiffTool \/ AddOptions \/ Supports

SpecTools == InitTools /\ [][NextTools]_vars

(***************************************************************************)
(* Properties.                                                             *)
(***************************************************************************)
Unlocked == \A t \in TreeSlots : locks[t] = 0

\* each tree of trees_to_lock is read-locked exactly once
LockedOnce == \A i \in DOMAIN trees_to_lock : locks[trees_to_lock[i]] = 1

\* compare_using has returned a value
Returned == result # -1

\* the next step constructs a NamedTemporaryDir and writes into it
AboutToStage ==
  \/ pc = "new_stage"
  \/ (pc = "old_side" /\ ~(b2 # None /\ in_working_tree))

CleanupCapability == tool # NoTool /\ supports(dicts[tool.capabilities], "cleanup")

RevsError == "BzrCommandError: Cannot specify -r with multiple branches"

\* C1: the tool's run() is called, and runs, only while the invocation holds no
\* read lock on any tree of trees_to_lock.
C1_ToolRunsUnlocked == (pc = "run" \/ run_log.called) => Unlocked

\* C1 witness: the tool has run in a comparison of two branches, after both
\* trees were locked twice by get_read_locks.
C1_Witness ==
  run_log.called /\ Len(trees_to_lock) = 2 /\ lock_reads = 6 /\ Len(run_log.spawned) > 0

\* C2 as stated: no NamedTemporaryDir is constructed or written while a tree
\* of trees_to_lock is still read-locked.
C2_StagingAfterRelease == AboutToStage => Unlocked

\* C2 amended: every NamedTemporaryDir is constructed and written while each
\* tree of trees_to_lock is read-locked exactly once; the locks are released
\* after the staging and before the tool runs.
C2_StagingUnderLocks ==
  /\ AboutToStage => LockedOnce
  /\ pc = "run" => Unlocked

\* C2 witness: both sides of a comparison of two branches were staged and the
\* locks were then released.
C2_Witness == pc = "run" /\ made = 2 /\ Len(trees_to_lock) = 2

\* C3: compare_using returns 0 exactly when the delta is empty and 1 otherwise,
\* whatever the tool's exit code and whether or not the user declined.
C3_ResultFromDelta ==
  Returned => /\ delta.computed
              /\ result = IF NoDifferences(delta) THEN 0 ELSE 1

\* C3 witness: the user declined the confirmation (run() returned 1 without a
\* process) and compare_using returned 1.
C3_Witness == Returned /\ result = 1 /\ run_log.declined

\* C4: when the delta is empty no NamedTemporaryDir has been constructed, the
\* tool is never run and the value returned is 0.
C4_EmptyDeltaShortCircuits ==
  (delta.computed /\ delta.removed = <<>> /\ delta.added = <<>>
      /\ delta.renamed = <<>> /\ delta.modified = <<>>)
    => /\ made = 0
       /\ ~run_log.called
       /\ pc \notin {"new_stage", "old_side", "run"}
       /\ pc \in {"returned", "ended"} => result = 0

\* C4 witness: 0 was returned for an empty delta against a second branch
\* without a working tree.
C4_Witness ==
  pc = "ended" /\ result = 0 /\ new_case = "b2_no_working_tree" /\ delta.computed

\* C5 as stated: when the revision error for two branches is raised no
\* lock_read has been called on any tree and no temporary directory exists.
C5_NoLockReadBeforeRevsError ==
  exc = RevsError => (lock_reads = 0 /\ made = 0 /\ DOMAIN files = {})

\* C5 amended: when the revision error for two branches is raised no lock is
\* held, get_read_locks has not been called (the only lock_read calls are the
\* two of get_tree_files, each undone by its unlock) and no temporary
\* directory exists.
C5_NoLockHeldAtRevsError ==
  exc = RevsError =>
    (Unlocked /\ lock_reads = 2 /\ made = 0 /\ DOMAIN files = {} /\ old_tree = NoTree)

\* C5 witness: the error was raised for two paths of two branches.
C5_Witness == pc = "raised" /\ exc = RevsError /\ b2 # None /\ b2 # b1

\* C6: when compare_using has ended, by return or by exception, no tree is
\* left read-locked, and at no time is a tree unlocked more often than locked.
C6_LocksBalanced ==
  /\ \A t \in TreeSlots : locks[t] >= 0
  /\ pc \in {"returned", "raised", "ended"} => Unlocked

\* C6 witness: an exception raised under the second pair of locks (the
\* revision lookup of rev2) left compare_using.
C6_Witness ==
  pc = "raised" /\ exc = "NoSuchRevision" /\ new_case = "rev2" /\ lock_reads = 3

\* C7 as stated: once the invocation has ended and its objects are dropped,
\* no temporary directory it made still exists, whatever the tool.
C7_NoDirectoryOutlives == pc = "ended" => DOMAIN files = {}

\* C7 amended: for a tool whose cleanup capability is true no directory is
\* left once the invocation has ended; for a tool registered with
\* cleanup=False (opendiff) nothing is ever removed.
C7_RemovedWhenCleanup ==
  (pc = "ended" /\ tool # NoTool) =>
    IF CleanupCapability THEN DOMAIN files = {} ELSE rmtree_log = <<>>

\* C7 witness: two directories were made and both were removed at the end.
C7_Witness ==
  pc = "ended" /\ made = 2 /\ CleanupCapability /\ Len(rmtree_log) = 2

\* C8: on one NamedTemporaryDir whose path carries the marker, rmtree is
\* called at most once over all cleanup() calls, and no call after the first
\* raises.
C8_CleanupIdempotent ==
  /\ Len(rmtree_log) <= 1
  /\ (cleanup_calls >= 2 /\ EndsWith(area.path, Marker)) => cleanup_exc = None

\* C8 witness: three cleanup() calls, the last by __del__, and one rmtree.
C8_Witness ==
  /\ pc = "area_dropped" /\ cleanup_calls = 3
  /\ rmtree_log = <<area.path>> /\ cleanup_exc = None

\* C9: cleanup() on a path without the marker raises the error and removes
\* nothing, whatever the cleaned flag.
C9_RefusesUnmarkedPath ==
  (cleanup_calls > 0 /\ ~EndsWith(area.path, Marker))
    => /\ cleanup_exc = "BzrError"
       /\ rmtree_log = <<>>

\* C9 witness: cleanup() was called on an existing directory without the
\* marker whose object was not yet cleaned, and the directory is still there.
C9_Witness ==
  /\ cleanup_calls > 0 /\ ~EndsWith(area.path, Marker) /\ area.path # <<>>
  /\ ~area.cleaned /\ area.path \in DOMAIN files

BothGiven == rev1.given /\ rev2.given

\* the path lies in the working copy of some branch
InWorkingCopy(path) ==
  \E b \in Branches : LocationKind(b) = "WorkingTree" /\ StartsWithAt(path, 1, Base(b))

\* C10: with rev1 and rev2 both given, the old and the new tree are the
\* revision trees of branch 1 that rev1 and rev2 name, both sides are staged
\* and the tool gets no working-copy path; and with one branch that has a
\* working tree the new side is staged in this case only.
C10_TwoRevisions ==
  /\ (BothGiven /\ new_tree # NoTree) =>
       /\ old_tree = RevisionTreeOf(b1, InHistoryRevno(rev1, b1))
       /\ new_tree = RevisionTreeOf(b1, InHistoryRevno(rev2, b1))
  /\ (BothGiven /\ run_log.called) =>
       /\ new_tmp_dir.made /\ old_tmp_dir.made
       /\ run_log.new_path = pathjoin(new_tmp_dir.path, adjust_path)
       /\ run_log.old_path = pathjoin(old_tmp_dir.path, adjust_path)
       /\ ~InWorkingCopy(run_log.new_path) /\ ~InWorkingCopy(run_log.old_path)
       /\ pc # "ended" => {new_tmp_dir.path, old_tmp_dir.path} \subseteq DOMAIN files
  /\ (b2 = None /\ in_working_tree /\ new_tmp_dir.made) => BothGiven

\* C10 witness: revisions 1 and 2 of a branch with a working tree were
\* compared and the tool has run on two staged directories.
C10_Witness ==
  /\ pc = "returned" /\ run_log.called /\ in_working_tree
  /\ rev1.spec = 1 /\ rev2.spec = 2 /\ made = 2

\* no revision was given and the paths lie in one branch
PlainComparison == ~rev1.given /\ ~rev2.given /\ b2 = None

\* C11: with no revision and no second branch the old tree is the tree of
\* the latest revision of branch 1 and the new tree is its working tree when
\* it has one; when it has none the new tree is the latest revision again,
\* the delta is empty, nothing is staged, the tool is not run and 0 is
\* returned, whatever the paths.
C11_BasisAgainstWorkingCopy ==
  /\ (PlainComparison /\ old_tree # NoTree) =>
       old_tree = RevisionTreeOf(b1, RevNo(b1))
  /\ (PlainComparison /\ new_tree # NoTree) =>
       new_tree = IF LocationKind(b1) = "WorkingTree"
                  THEN WorkingTreeOf(b1) ELSE RevisionTreeOf(b1, RevNo(b1))
  /\ (PlainComparison /\ new_tree # NoTree /\ LocationKind(b1) # "WorkingTree") =>
       /\ delta.computed /\ NoDifferences(delta)
       /\ made = 0 /\ ~run_log.called
       /\ pc \in {"finally2", "returned", "ended"}
       /\ pc \in {"returned", "ended"} => result = 0

\* C11 witness: two paths of the remote branch, which has no working tree,
\* were compared and 0 was returned with nothing staged.
C11_Witness ==
  /\ pc = "ended" /\ result = 0 /\ PlainComparison /\ new_case = "basis"
  /\ b1 = "R" /\ Len(file_list) = 2 /\ made = 0

\* the next step reads the repository: it resolves paths to ids, looks a
\* revision up, or computes the delta
AboutToRead == pc \in {"gtf1_locked", "gtf2_locked", "old_tree", "new_side"}

\* the trees the comparison is known to involve: the first, and the second
\* once the paths left over are being resolved
TreesOfComparison == {1} \cup (IF pc = "gtf2_locked" \/ b2 # None THEN {2} ELSE {})

\* C12 as stated: every resolution of paths, every revision lookup and every
\* delta computation is made while every tree of the comparison is
\* read-locked.
C12_ReadsUnderAllLocks ==
  AboutToRead => \A t \in TreesOfComparison : locks[t] > 0

\* C12 amended: get_tree_files resolves paths while the tree it resolves in,
\* and only that tree, is read-locked; the mode is chosen, and the new tree is
\* looked up and the delta computed, while every tree of trees_to_lock is
\* read-locked once; the old tree is looked up while no lock is held.
C12_ReadsAndLocks ==
  /\ pc = "gtf1_locked" => (locks[1] = 1 /\ locks[2] = 0)
  /\ pc = "gtf2_locked" => (locks[1] = 0 /\ locks[2] = 1)
  /\ pc \in {"mode", "new_side"} =>
       /\ LockedOnce
       /\ {trees_to_lock[i] : i \in DOMAIN trees_to_lock} = TreesOfComparison
  /\ pc = "old_tree" => Unlocked

\* C12 witness: in a comparison of two branches the delta was computed while
\* both trees were read-locked.
C12_Witness ==
  /\ pc = "old_side" /\ delta.computed /\ b2 # None /\ b2 # b1
  /\ locks[1] = 1 /\ locks[2] = 1

CannotFind == "BzrError: Cannot find"

\* C13: when no entry of PATH holds the tool, registered or not,
\* Controller.run raises the error of check_path, and no get_tree_files call,
\* no lock_read and no temporary directory has been made.
C13_ToolNotFoundFailsFirst ==
  (checked # NotChecked /\ ~checked.found) =>
    /\ exc = CannotFind /\ pc \in {"raised", "ended"}
    /\ tool = NoTool /\ file_list = <<>>
    /\ b1 = None /\ work_tree1 = NoTree
    /\ lock_reads = 0 /\ Unlocked
    /\ made = 0 /\ DOMAIN files = {}
    /\ dicts = InitialDicts

\* C13 witness: a tool that is not registered was not found on PATH.
C13_Witness ==
  /\ pc = "raised" /\ exc = CannotFind
  /\ checked.name \notin RegisteredNames /\ checked.name # None /\ ~checked.found

\* get_tree_files looked the path up in the tree of branch b and found no id:
\* the path lies in b and the tree does not track it
LookedUpUntracked(p, b, tree) == p.loc = b /\ path2id(tree, p.rel) = None

TooManyBranches == "BzrCommandError: Cannot compare more than two branches"

\* C14: get_tree_files never returns normally from a list in which it looked
\* up a path that has no id in the tree: such a path raises NotVersionedError
\* or PathNotChild to the caller.  After a normal return the first path left
\* over is therefore never one that was looked up and found untracked.
C14_UntrackedPathRaises ==
  /\ (pc = "gtf2" /\ remainder # <<>>) =>
       ~LookedUpUntracked(remainder[1], b1, work_tree1)
  /\ (exc = TooManyBranches /\ remainder # <<>>) =>
       ~LookedUpUntracked(remainder[1], b2, work_tree2)

\* the first get_tree_files call has returned normally
Resolved1 == pc \in {"gtf2", "lock1"}

\* C15: on every normal return of get_tree_files the ids are those of a
\* prefix of the input, one per path and in order, the remainder is the rest
\* of the input, no path at or after the first path of another branch is
\* consumed, and the loop stops only at the end of the input, at a path of
\* another branch or at a remote path the tree does not track.
C15_PrefixConsumed ==
  Resolved1 =>
    /\ Len(file_ids1) + Len(remainder) = Len(file_list)
    /\ remainder = SubSeq(file_list, Len(file_ids1) + 1, Len(file_list))
    /\ \A k \in 1..Len(file_ids1) :
         /\ file_list[k].loc = b1
         /\ file_ids1[k] = path2id(work_tree1, file_list[k].rel)
         /\ file_ids1[k] # None
    /\ \A k \in 1..Len(file_list) : file_list[k].loc # b1 => Len(file_ids1) < k
    /\ remainder # <<>> =>
         \/ remainder[1].loc # b1
         \/ (LookedUpUntracked(remainder[1], b1, work_tree1) /\ ~IsLocal(remainder[1]))

\* C15 witness: of three paths the second lies in another branch and the
\* third in the first branch again; one path was consumed.
C15_Witness ==
  /\ Resolved1 /\ Len(file_list) = 3 /\ Len(file_ids1) = 1 /\ Len(remainder) = 2
  /\ file_list[2].loc # b1 /\ file_list[3].loc = b1
  /\ path2id(work_tree1, file_list[3].rel) # None

\* path is one of the paths handed to changes_from
Restricts(path) == \E i \in DOMAIN specific_files : specific_files[i] = path

\* C16: the paths handed to changes_from cover every requested id: an id the
\* new tree has by its path in the new tree, an id only the old tree has by
\* its path in the old tree.
C16_RestrictionCoversIds ==
  delta.computed =>
    \A k \in DOMAIN NewIds(new_case) :
      LET file_id == NewIds(new_case)[k]
      IN /\ has_id(new_tree, file_id) => Restricts(id2path(new_tree, file_id))
         /\ (~has_id(new_tree, file_id) /\ has_id(old_tree, file_id)) =>
              Restricts(id2path(old_tree, file_id))

\* C17 as stated: the delta is always computed restricted to the ids of the
\* first branch.
C17_RestrictedToFirstIds ==
  delta.computed => specific_files = DiffPathList(new_tree, file_ids1)

\* C17 amended: with one branch the delta is restricted to file_ids1; with
\* two branches it is restricted to file_ids2, looked up in work_tree2.
C17_RestrictedToIdsOfNewTree ==
  delta.computed =>
    /\ b2 = None => specific_files = DiffPathList(new_tree, file_ids1)
    /\ b2 # None => (new_tree = work_tree2
                      /\ specific_files = DiffPathList(work_tree2, file_ids2))

\* C17 witness: a directory of one branch was compared with a file of
\* another, and the delta was restricted to the file.
C17_Witness ==
  /\ delta.computed /\ b2 # None
  /\ file_ids1 = <<"d-id">> /\ file_ids2 = <<"f-id">> /\ specific_files = <<FileF>>

\* C18: whenever the tool has been run with a path list, every side that
\* was staged was written as an export of the whole tree (use_tree), never as
\* flat files.
C18_ListedRunsUseTrees ==
  (run_log.called /\ run_log.listed /\ (new_tmp_dir.made \/ old_tmp_dir.made))
    => use_tree

TextChanged(entry) == entry.text_mods

\* the paths of the entries of the delta that are not modified entries
OtherPaths ==
  {delta.removed[i].path : i \in DOMAIN delta.removed}
    \cup {delta.added[i].path : i \in DOMAIN delta.added}
    \cup {delta.renamed[i].path : i \in DOMAIN delta.renamed}
    \cup {delta.renamed[i].new_path : i \in DOMAIN delta.renamed}

\* path with the text old, where it first occurs, replaced by a dot
Dotted(path, old) ==
  IF \E k \in 1..Len(path) : StartsWithAt(path, k, old)
  THEN LET k == CHOOSE j \in 1..Len(path) :
                  /\ StartsWithAt(path, j, old)
                  /\ \A h \in 1..(j - 1) : ~StartsWithAt(path, h, old)
       IN [n \in 1..(Len(path) - Len(old) + 1) |->
             IF n < k THEN path[n] ELSE IF n = k THEN "." ELSE path[n + Len(old) - 1]]
  ELSE path

\* C19: the path list the tool is run with holds the paths of the modified
\* entries whose text changed, in the order of the delta, and nothing else:
\* no removed, added or renamed entry and no entry changed in metadata only;
\* with a prefix adjustment each path has the first occurrence of the prefix
\* replaced by ".", without one the paths are as in the delta.
C19_PathListIsTextChanges ==
  (run_log.called /\ run_log.listed) =>
    LET texts == SelectSeq(delta.modified, TextChanged)
    IN /\ Len(run_log.path_list) = Len(texts)
       /\ \A i \in 1..Len(texts) :
            run_log.path_list[i] =
              IF adjust_path # <<>> THEN Dotted(texts[i].path, adjust_path)
              ELSE texts[i].path
       /\ adjust_path = <<>> =>
            \A i \in 1..Len(run_log.path_list) : run_log.path_list[i] \notin OtherPaths

\* C19 witness: the tool was run on the delta with entries of every kind,
\* under the prefix adjustment d, with ./f as the only path.
C19_Witness ==
  /\ run_log.called /\ run_log.listed
  /\ Len(delta.removed) = 1 /\ Len(delta.added) = 1 /\ Len(delta.renamed) = 1
  /\ Len(delta.modified) = 2 /\ ~delta.modified[1].text_mods
  /\ adjust_path = DirD /\ run_log.path_list = << <<".", "/", "f">> >>

\* the second get_tree_files has returned and a usage check of lines 87-90
\* has raised
UsageRaised == pc = "raised" /\ b2 # None

\* C20 as stated: when the second resolution leaves paths over and a
\* revision was given, the error raised is the one about revisions.
C20_RevisionErrorFirst ==
  (UsageRaised /\ remainder # <<>> /\ (rev1.given \/ rev2.given)) => exc = RevsError

\* C20 amended: when the second resolution leaves paths over the error
\* raised is the one about more than two branches, with or without a
\* revision; the error about revisions is raised only when nothing is left
\* over.
C20_TooManyBranchesFirst ==
  /\ (UsageRaised /\ remainder # <<>>) => exc = TooManyBranches
  /\ (UsageRaised /\ remainder = <<>>) => (exc = RevsError /\ (rev1.given \/ rev2.given))
  /\ exc = RevsError => remainder = <<>>

\* C20 witness: three paths of three branches, each tracked, were given
\* with a revision, and the error is the one about more than two branches.
C20_Witness ==
  /\ UsageRaised /\ exc = TooManyBranches /\ rev1.given
  /\ Len(file_list) = 3 /\ Len(file_ids1) = 1 /\ Len(file_ids2) = 1 /\ Len(remainder) = 1
  /\ b1 # b2 /\ remainder[1].loc \notin {b1, b2}

\* the confirmation was asked for and answered
Asked == run_log.called /\ run_log.val # None

\* the answers that decline, in every letter case
Declining ==
  {<<"n">>, <<"N">>, <<"n", "o">>, <<"N", "o">>, <<"n", "O">>, <<"N", "O">>}

\* C21: an interactive list tool run with a path list of more than one entry
\* asks for confirmation; on the answer n or no, in any letter case, run()
\* returns 1 with no process spawned; on any other answer one process is
\* spawned per entry of the list, in the order of the list, on the new and
\* the old path joined with the entry.
C21_DeclineSpawnsNothing ==
  /\ (run_log.called /\ tool.class = "ListDiffTool" /\ run_log.listed
        /\ Len(run_log.path_list) > 1
        /\ supports(dicts[tool.capabilities], "interactive")) => Asked
  /\ (Asked /\ run_log.val \in Declining) =>
       (run_log.declined /\ run_log.spawned = <<>> /\ exc = None)
  /\ (Asked /\ run_log.val \notin Declining /\ exc = None) =>
       /\ ~run_log.declined
       /\ Len(run_log.spawned) = Len(run_log.path_list)
       /\ \A i \in 1..Len(run_log.path_list) :
            run_log.spawned[i] = <<pathjoin(run_log.new_path, run_log.path_list[i]),
                                   pathjoin(run_log.old_path, run_log.path_list[i])>>

\* C21 witness: the answer No declined a list of two paths.
C21_Witness ==
  /\ Asked /\ run_log.val = <<"N", "o">> /\ run_log.declined
  /\ Len(run_log.path_list) = 2 /\ run_log.spawned = <<>>

\* the item a staged side's path names: the prefix adjustment in an export
\* of the whole tree, else the requested file (one of ids, resolved in tree)
\* that is written flat under that name
StagedItem(tree, ids) ==
  IF use_tree THEN adjust_path
  ELSE LET named == {k \in DOMAIN ids :
                       /\ has_id(tree, ids[k])
                       /\ basename(id2path(tree, ids[k])) = adjust_path}
       IN IF named = {} THEN <<"?">> ELSE id2path(tree, ids[CHOOSE k \in named : TRUE])

\* the item of its tree the path of a side compared in place names: the path
\* below the root of the tree
InPlaceItem(tree, path) ==
  LET root == abspath(tree, <<>>)
  IN IF StartsWithAt(path, 1, root) THEN SubSeq(path, Len(root) + 1, Len(path))
     ELSE <<"?">>

OldItem ==
  IF old_tmp_dir.made THEN StagedItem(work_tree1, file_ids1)
  ELSE InPlaceItem(work_tree1, run_log.old_path)

NewItem ==
  IF new_tmp_dir.made
  THEN StagedItem(IF b2 # None THEN work_tree2 ELSE work_tree1, NewIds(new_case))
  ELSE InPlaceItem(new_tree, run_log.new_path)

\* exactly one of the two branches compared has a working tree
OneWorkingCopy == b2 # None /\ (in_working_tree # b2_in_working_tree)

\* every path of the request names the same item of its branch
SameRequest == \A i, j \in DOMAIN file_list : file_list[i].rel = file_list[j].rel

\* C22: the old and the new path the tool is run on name the same item of
\* their trees, the root on both sides or the same file or directory; stated
\* for the requests that name the same item in each branch.
C22_SameItemBothSides == (run_log.called /\ SameRequest) => OldItem = NewItem

\* find has just handed out an instance of a registered tool
FoundRegistered == pc = "found" /\ tool.command \in DOMAIN as_registered

\* the options of the instance found are those register was given
OptionsAsRegistered ==
  FoundRegistered => tool.options = as_registered[tool.command].options

\* the capabilities of the instance found are those register was given
CapabilitiesAsRegistered ==
  FoundRegistered => dicts[tool.capabilities] = as_registered[tool.command].capabilities

\* the registry holds the registered names only, each with the options it was
\* registered with
RegistryAsRegistered ==
  /\ DOMAIN known_tools["diff"] = DOMAIN as_registered
  /\ \A name \in DOMAIN as_registered :
       known_tools["diff"][name].options = as_registered[name].options

\* C23: whatever register, find, add_options and supports(key, value) calls
\* came before, the instance a find returns has the options and the
\* capabilities of the exemplar last registered under its name, as that
\* exemplar was registered, and looking up an unregistered name leaves the
\* registry as it was.
C23_FoundAsRegistered ==
  /\ OptionsAsRegistered
  /\ CapabilitiesAsRegistered
  /\ RegistryAsRegistered

\* the usage checks are passed and file_ids1[0] is about to be read
AtModeSelection == pc \in {"lock1", "mode"}

\* what compare_using gave its second get_tree_files call
SecondInput == SubSeq(file_list, Len(file_ids1) + 1, Len(file_list))

\* C24: at mode selection file_ids1 is not empty, nor is file_ids2 when there
\* is a second branch, and no index fails; a get_tree_files call that returns
\* no identifier returns its whole input as the rest, and the invocation
\* ends in "Cannot compare more than two branches".
C24_IdsNotEmpty ==
  /\ AtModeSelection =>
       /\ file_ids1 # <<>>
       /\ b2 # None => file_ids2 # <<>>
  /\ exc # "IndexError"
  /\ (pc = "gtf2" /\ file_ids1 = <<>>) => remainder = file_list
  /\ (b2 # None /\ file_ids2 = <<>>) =>
       /\ remainder = SecondInput
       /\ pc \in {"raised", "ended"} /\ exc = TooManyBranches
  /\ (pc \in {"raised", "ended"} /\ b1 # None /\ file_ids1 = <<>>) =>
       /\ b2 # None /\ file_ids2 = <<>>
       /\ exc = TooManyBranches

\* one path, not tracked in a remote branch: both calls return no identifier
\* and the path itself, and the usage error is raised
C24_Witness ==
  /\ pc = "raised" /\ exc = TooManyBranches
  /\ Len(file_list) = 1 /\ ~IsLocal(file_list[1])
  /\ b1 # None /\ file_ids1 = <<>>
  /\ b2 # None /\ file_ids2 = <<>>
  /\ remainder = file_list

====
